---- MODULE Spec2Model ----
(***************************************************************************)
(* Model of the ECAA crew simulation (src/main.py): the session state, the *)
(* compliance classifier, the health handler, the protocol interpreter and *)
(* the planner's run_step, driven by a simulated clock.                    *)
(*                                                                         *)
(* Text is modelled as sequences of one-character strings wherever the     *)
(* code computes on it (strftime keys, lower(), substring tests); opaque   *)
(* texts that are only printed or carried around are TLA+ strings.         *)
(* Printing, and retrieve_long_term_memory whose result is only printed,   *)
(* have no effect on the state and are left out.                           *)
(***************************************************************************)
EXTENDS Integers, Sequences, FiniteSets, TLC

VARIABLES
    current_time,    \* SessionState.current_time, as [h, m]
    daily_schedule,  \* SessionState.daily_schedule: key -> [task, status, priority]
    escalation_log,  \* SessionState.escalation_log: sequence of records
    alerts,          \* messages handed to CustomTools.send_alert_to_caregiver
    last             \* the last operation: its inputs, the state before it, its calls

vars == <<current_time, daily_schedule, escalation_log, alerts, last>>

-----------------------------------------------------------------------------
(* Bounds of the model *)

\* longest padding put before and after a reply's core text
MaxPad == 1
\* most notifier messages kept when the interpreter is driven directly
MaxAlerts == 2
\* most escalation records kept when the health handler is driven directly
MaxLog == 2

-----------------------------------------------------------------------------
(* Text helpers: str.lower() and the `in` substring test *)

UpperChars == <<"A","B","C","D","E","F","G","H","I","J","K","L","M",
                "N","O","P","Q","R","S","T","U","V","W","X","Y","Z">>
LowerChars == <<"a","b","c","d","e","f","g","h","i","j","k","l","m",
                "n","o","p","q","r","s","t","u","v","w","x","y","z">>

LowerChar(c) ==
    IF \E i \in 1..Len(UpperChars) : UpperChars[i] = c
    THEN LowerChars[CHOOSE i \in 1..Len(UpperChars) : UpperChars[i] = c]
    ELSE c

lower(s) == [i \in 1..Len(s) |-> LowerChar(s[i])]

Contains(sub, s) ==
    \E i \in 1..(Len(s) - Len(sub) + 1) : SubSeq(s, i, i + Len(sub) - 1) = sub

-----------------------------------------------------------------------------
(* datetime.strftime("%H:%M"): two zero-padded digits, a colon, two digits *)

DigitChars == <<"0","1","2","3","4","5","6","7","8","9">>

strftime(t) ==
    << DigitChars[(t.h \div 10) + 1], DigitChars[(t.h % 10) + 1], ":",
       DigitChars[(t.m \div 10) + 1], DigitChars[(t.m % 10) + 1] >>

-----------------------------------------------------------------------------
(* SessionState.__init__ *)

Key_8_00  == <<"8", ":", "0", "0">>
Key_10_30 == <<"1", "0", ":", "3", "0">>
Key_15_00 == <<"1", "5", ":", "0", "0">>

TaskBP   == "Medication: Blood Pressure Med"
TaskWalk == "Activity: Walk 15 minutes"
TaskVitD == "Medication: Vitamin D"

InitialSchedule ==
    (Key_8_00  :> [task |-> TaskBP,   status |-> "PENDING", priority |-> "CRITICAL"]) @@
    (Key_10_30 :> [task |-> TaskWalk, status |-> "PENDING", priority |-> "LOW"]) @@
    (Key_15_00 :> [task |-> TaskVitD, status |-> "PENDING", priority |-> "HIGH"])

UserName == "Mr. David"

\* the clock readings the driver uses: datetime.now() at construction, then
\* replace(hour=, minute=) and += timedelta(minutes=1)
ClockHours   == {8, 10, 15}
ClockMinutes == {0, 1, 30}
Times == [h : ClockHours, m : ClockMinutes]

-----------------------------------------------------------------------------
(* The reply texts of the health handler *)

TIMEOUT == <<"T","I","M","E","O","U","T">>

\* "I confirm I took it. Thanks."
ConfirmReply ==
    <<"I"," ","c","o","n","f","i","r","m"," ","I"," ","t","o","o","k"," ",
      "i","t","."," ","T","h","a","n","k","s",".">>

Marker_confirm == <<"c","o","n","f","i","r","m">>
Marker_took    == <<"t","o","o","k">>

-----------------------------------------------------------------------------
(* LLMSimulator *)

Artifact(status, next_action, text, echo) ==
    [a2a_status |-> status, next_action |-> next_action,
     response_text |-> [text |-> text, echo |-> echo]]

\* a case-sensitive marker test (a dropped .lower())
has_marker_case_sensitive(user_response) ==
    \/ Contains(Marker_confirm, user_response)
    \/ Contains(Marker_took, user_response)

\* "confirm" in user_response.lower() or "took" in user_response.lower()
has_marker(user_response) ==
    \/ Contains(Marker_confirm, lower(user_response))
    \/ Contains(Marker_took, lower(user_response))

\* a sentinel test on the lowered reply, which the upper-case sentinel never passes
is_timeout_lowered(user_response) == lower(user_response) = TIMEOUT

\* a sentinel test that ignores letter case
is_timeout_any_case(user_response) == lower(user_response) = lower(TIMEOUT)

\* user_response == "TIMEOUT"
is_timeout(user_response) == user_response = TIMEOUT

health_manager_reasoning(task, user_response) ==
    IF has_marker(user_response)
    THEN Artifact("confirmed", "none", "Compliance confirmed. Well done!", <<>>)
    ELSE IF is_timeout(user_response)
    THEN Artifact("missed", "alert_caregiver",
                  "Dose missed. Initiating caregiver alert.", <<>>)
    ELSE Artifact("pending_follow_up", "none",
                  "I see you asked about ... Let me check the database for you.",
                  user_response)

Word_breakfast == <<"b","r","e","a","k","f","a","s","t">>

activity_coordinator_response(query) ==
    IF Contains(Word_breakfast, lower(query))
    THEN "low-sodium diet: oatmeal with berries and a glass of milk"
    ELSE "I can help with that. Let me look up some options for you."

-----------------------------------------------------------------------------
(* The operations below thread the shared state through the calls they     *)
(* make, in the order the code makes them.  st is                          *)
(*   [sched, log, alerts, calls]                                           *)
(* where calls is the trace of invocations and of status writes made so    *)
(* far in the operation.                                                   *)

Called(st, name) == [st EXCEPT !.calls = Append(@, name)]

\* CustomTools.send_alert_to_caregiver: prints the message, returns True
send_alert_to_caregiver(st, message) ==
    [st  |-> [Called(st, "send_alert_to_caregiver")
                 EXCEPT !.alerts = Append(@, message)],
     ret |-> TRUE]

\* a handler that drops the escalated entry from the schedule
mark_missed_dropping(st, task_time) ==
    [Called(st, "status := MISSED - ESCALATED")
        EXCEPT !.sched = [k \in DOMAIN st.sched \ {task_time} |-> st.sched[k]]]

\* self.state.daily_schedule[task_time]['status'] = 'MISSED - ESCALATED'
mark_missed(st, task_time) ==
    [Called(st, "status := MISSED - ESCALATED")
        EXCEPT !.sched[task_time].status = "MISSED - ESCALATED"]

\* a handler whose every wait times out
user_response_always_timeout(task_time) == TIMEOUT

\* the simulated user interaction of the health handler
user_response_at(task_time) ==
    IF task_time = Key_8_00 THEN TIMEOUT ELSE ConfirmReply

\* a handler that replaces the escalation log by the new record, and closes
\* the entry itself when the dose is confirmed
issue_reminder_overwriting(st, now, task_time, task_details) ==
    LET s1 == Called(st, "issue_reminder_and_check_compliance")
        user_response == user_response_at(task_time)
        llm_output == health_manager_reasoning(task_details.task, user_response)
        s2 == Called(s1, "health_manager_reasoning")
        s3 == IF llm_output.a2a_status = "missed"
              THEN [mark_missed(s2, task_time) EXCEPT
                      !.log = <<[time |-> strftime(now), task |-> task_details.task]>>]
              ELSE [s2 EXCEPT !.sched[task_time].status = "COMPLETED"]
    IN  [st  |-> s3,
         ret |-> [agent_source |-> "HealthManagerAgent",
                  task |-> task_details.task,
                  a2a_artifact |-> llm_output]]

\* HealthManagerAgent.issue_reminder_and_check_compliance
issue_reminder_and_check_compliance(st, now, task_time, task_details) ==
    LET s1 == Called(st, "issue_reminder_and_check_compliance")
        user_response == user_response_at(task_time)
        llm_output == health_manager_reasoning(task_details.task, user_response)
        s2 == Called(s1, "health_manager_reasoning")
        s3 == IF llm_output.a2a_status = "missed"
              THEN [mark_missed(s2, task_time) EXCEPT
                      !.log = Append(@, [time |-> strftime(now),
                                         task |-> task_details.task])]
              ELSE s2
    IN  [st  |-> s3,
         ret |-> [agent_source |-> "HealthManagerAgent",
                  task |-> task_details.task,
                  a2a_artifact |-> llm_output]]

\* a coordinator that marks every pending entry done while answering
handle_user_query_marking(st, query) ==
    [st  |-> [Called(Called(st, "handle_user_query"), "activity_coordinator_response")
                EXCEPT !.sched = [k \in DOMAIN st.sched |->
                                    IF st.sched[k].status = "PENDING"
                                    THEN [st.sched[k] EXCEPT !.status = "COMPLETED"]
                                    ELSE st.sched[k]]],
     ret |-> activity_coordinator_response(query)]

\* ActivityCoordinatorAgent.handle_user_query
handle_user_query(st, query) ==
    [st  |-> Called(Called(st, "handle_user_query"), "activity_coordinator_response"),
     ret |-> activity_coordinator_response(query)]

\* an escalation test that alerts on every artifact
must_alert_always(status, next_action) == TRUE

\* an escalation test that re-derives the action from the status alone
must_alert_status_only(status, next_action) == status = "missed"

\* the escalation test of PlannerAgent.process_a2a_artifact
must_alert(status, next_action) ==
    status = "missed" /\ next_action = "alert_caregiver"

\* PlannerAgent.process_a2a_artifact: the notifier's result is discarded
process_a2a_artifact(st, artifact) ==
    LET s1 == Called(st, "process_a2a_artifact")
        status == artifact.a2a_artifact.a2a_status
        next_action == artifact.a2a_artifact.next_action
    IN  IF must_alert(status, next_action)
        THEN send_alert_to_caregiver(s1, [who |-> UserName, task |-> artifact.task]).st
        ELSE s1

\* a step without the at-most-once test
is_pending_unchecked(task_details) == TRUE

\* the at-most-once test of PlannerAgent.run_step
is_pending(task_details) == task_details.status = "PENDING"

\* a routing test that sends every priority to the health handler
is_health_priority_any(task_details) == TRUE

\* the routing test of PlannerAgent.run_step
is_health_priority(task_details) == task_details.priority \in {"CRITICAL", "HIGH"}

\* a step that forgets to close the entry it handled
mark_completed_skipped(st, key) == st

\* self.state.daily_schedule[current_time_str]['status'] = 'COMPLETED'
mark_completed(st, key) ==
    [Called(st, "status := COMPLETED") EXCEPT !.sched[key].status = "COMPLETED"]

\* a step that closes the entry before it delegates
run_step_closing_first(st, now) ==
    LET current_time_str == strftime(now) IN
    IF current_time_str \in DOMAIN st.sched
    THEN LET task_details == st.sched[current_time_str] IN
         IF is_pending(task_details)
         THEN IF is_health_priority(task_details)
              THEN LET s0 == mark_completed(st, current_time_str)
                       h == issue_reminder_and_check_compliance(
                                s0, now, current_time_str, task_details)
                   IN  process_a2a_artifact(h.st, h.ret)
              ELSE mark_completed(st, current_time_str)
         ELSE st
    ELSE st

\* PlannerAgent.run_step
run_step(st, now) ==
    LET current_time_str == strftime(now) IN
    IF current_time_str \in DOMAIN st.sched
    THEN LET task_details == st.sched[current_time_str] IN
         IF is_pending(task_details)
         THEN IF is_health_priority(task_details)
              THEN LET h == issue_reminder_and_check_compliance(
                                st, now, current_time_str, task_details)
                       s2 == process_a2a_artifact(h.st, h.ret)
                   IN  mark_completed(s2, current_time_str)
              ELSE mark_completed(st, current_time_str)
         ELSE st
    ELSE st

-----------------------------------------------------------------------------
(* The state machine *)

Shared == [sched |-> daily_schedule, log |-> escalation_log,
           alerts |-> alerts, calls |-> <<>>]

\* what `last` records of an operation: its name and input, the clock it ran
\* at, the shared state before it, the calls it made, what it returned, and
\* whether it directly follows a run_step at the same clock reading
Op(name, arg, calls, ret, repeat) ==
    [op |-> name, arg |-> arg, time |-> current_time,
     before |-> [sched |-> daily_schedule, log |-> escalation_log, alerts |-> alerts],
     calls |-> calls, ret |-> ret, repeat |-> repeat]

Commit(st) ==
    /\ daily_schedule' = st.sched
    /\ escalation_log' = st.log
    /\ alerts' = st.alerts

\* SessionState.__init__: the clock is datetime.now() to the minute
Init ==
    /\ current_time \in Times
    /\ daily_schedule = InitialSchedule
    /\ escalation_log = <<>>
    /\ alerts = <<>>
    /\ last = [op |-> "init", arg |-> <<>>, time |-> current_time,
               before |-> [sched |-> InitialSchedule, log |-> <<>>, alerts |-> <<>>],
               calls |-> <<>>, ret |-> <<>>, repeat |-> FALSE]

\* state.current_time = state.current_time.replace(hour=h, minute=m)
SetTime ==
    \E t \in Times :
        /\ current_time' = t
        /\ last' = Op("set_time", t, <<>>, <<>>, FALSE)
        /\ UNCHANGED <<daily_schedule, escalation_log, alerts>>

\* state.current_time += timedelta(minutes=1)
Tick ==
    LET total == current_time.h * 60 + current_time.m + 1
        t == [h |-> (total \div 60) % 24, m |-> total % 60]
    IN  /\ t \in Times
        /\ current_time' = t
        /\ last' = Op("tick", t, <<>>, <<>>, FALSE)
        /\ UNCHANGED <<daily_schedule, escalation_log, alerts>>

\* planner.run_step()
RunStep ==
    LET st == run_step(Shared, current_time) IN
    /\ Commit(st)
    /\ last' = Op("run_step", strftime(current_time), st.calls, <<>>,
                  last.op = "run_step" /\ last.time = current_time)
    /\ UNCHANGED current_time

Queries ==
    { <<"W","h","a","t"," ","s","h","o","u","l","d"," ","I"," ","e","a","t"," ",
        "f","o","r"," ","b","r","e","a","k","f","a","s","t","?">>,
      <<"B","R","E","A","K","F","A","S","T">>,
      <<"H","e","l","l","o">> }

\* activity_coordinator.handle_user_query(user_query)
HandleQuery ==
    \E q \in Queries :
        LET r == handle_user_query(Shared, q) IN
        /\ Commit(r.st)
        /\ last' = Op("handle_user_query", q, r.st.calls, r.ret, FALSE)
        /\ UNCHANGED current_time

Next == SetTime \/ Tick \/ RunStep \/ HandleQuery

Spec == Init /\ [][Next]_vars

-----------------------------------------------------------------------------
(* The protocol interpreter driven directly, with every artifact *)

Statuses    == {"confirmed", "missed", "pending_follow_up"}
NextActions == {"none", "alert_caregiver"}
Tasks       == {TaskBP, TaskWalk, TaskVitD}

\* planner.process_a2a_artifact(envelope)
CallInterpreter ==
    \E status \in Statuses, next_action \in NextActions, task \in Tasks :
        LET envelope == [agent_source |-> "HealthManagerAgent", task |-> task,
                         a2a_artifact |-> Artifact(status, next_action, "", <<>>)]
            st == process_a2a_artifact(Shared, envelope)
        IN  /\ Len(alerts) < MaxAlerts
            /\ Commit(st)
            /\ last' = Op("process_a2a_artifact", envelope, st.calls, <<>>, FALSE)
            /\ UNCHANGED current_time

SpecInterp == Init /\ [][CallInterpreter]_vars

-----------------------------------------------------------------------------
(* The health handler driven directly, for any entry, beside the planner's *)
(* step and the coordinator, with the clock at its reading of construction *)

\* health_manager.issue_reminder_and_check_compliance(task_time, task_details)
CallHandler ==
    \E task_time \in DOMAIN daily_schedule :
        LET r == issue_reminder_and_check_compliance(
                     Shared, current_time, task_time, daily_schedule[task_time])
        IN  /\ Len(escalation_log) < MaxLog
            /\ Commit(r.st)
            /\ last' = Op("issue_reminder_and_check_compliance", task_time,
                          r.st.calls, r.ret, FALSE)
            /\ UNCHANGED current_time

NextHandler == CallHandler \/ RunStep \/ HandleQuery

SpecHandler == Init /\ [][NextHandler]_vars

-----------------------------------------------------------------------------
(* The compliance classifier applied to a bounded set of replies *)

PadChars == {" ", "t", "K"}

Pads == UNION { [1..n -> PadChars] : n \in 0..MaxPad }

Cores ==
    { <<>>,
      <<"c","o","n","f","i","r","m">>,
      <<"C","O","N","F","I","R","M">>,
      <<"C","o","n","f","i","r","m","e","d">>,
      <<"c","o","n","f","i","r">>,
      <<"t","o","o","k">>,
      <<"T","O","O","K">>,
      <<"t","O","o","K">>,
      <<"o","o">>,
      <<"O","o","k">>,
      <<"T","I","M","E","O","U","T">>,
      <<"t","i","m","e","o","u","t">>,
      <<"T","i","m","e","o","u","t">>,
      <<"W","h","a","t","?">>,
      ConfirmReply }

Replies == { p \o c \o q : p \in Pads, c \in Cores, q \in Pads }

\* a fresh session and one (task, reply) pair for the classifier
InitLLM ==
    /\ current_time \in Times
    /\ daily_schedule = InitialSchedule
    /\ escalation_log = <<>>
    /\ alerts = <<>>
    /\ \E task \in Tasks, user_response \in Replies :
         last = [op |-> "init",
                 arg |-> [task |-> task, user_response |-> user_response],
                 time |-> current_time,
                 before |-> [sched |-> InitialSchedule, log |-> <<>>, alerts |-> <<>>],
                 calls |-> <<>>, ret |-> <<>>, repeat |-> FALSE]

\* llm.health_manager_reasoning(task, user_response)
Reason ==
    /\ last.op = "init"
    /\ last' = Op("health_manager_reasoning", last.arg, <<>>,
                  health_manager_reasoning(last.arg.task, last.arg.user_response),
                  FALSE)
    /\ UNCHANGED <<current_time, daily_schedule, escalation_log, alerts>>

SpecLLM == InitLLM /\ [][Reason]_vars

-----------------------------------------------------------------------------
(* Vocabulary of the properties *)

\* how often name occurs in a trace of calls
Count(calls, name) == Cardinality({i \in 1..Len(calls) : calls[i] = name})

DigitValue(c) == (CHOOSE i \in 1..Len(DigitChars) : DigitChars[i] = c) - 1

RECURSIVE Number(_)
Number(digits) ==
    IF digits = <<>> THEN 0
    ELSE 10 * Number(SubSeq(digits, 1, Len(digits) - 1)) + DigitValue(digits[Len(digits)])

\* the time of day a schedule key denotes: "8:00" is eight o'clock
KeyTime(key) ==
    LET colon == CHOOSE i \in 1..Len(key) : key[i] = ":"
    IN  [h |-> Number(SubSeq(key, 1, colon - 1)),
         m |-> Number(SubSeq(key, colon + 1, Len(key)))]

\* the last operation was a run_step at the time of day of entry k, which was PENDING
SteppedAt(k) ==
    /\ last.op = "run_step"
    /\ KeyTime(k) = last.time
    /\ last.before.sched[k].status = "PENDING"

HealthCalls  == Count(last.calls, "issue_reminder_and_check_compliance")
GeneralCalls == Count(last.calls, "handle_user_query")
AlertCalls   == Count(last.calls, "send_alert_to_caregiver")

UpperChar(c) ==
    IF \E i \in 1..Len(LowerChars) : LowerChars[i] = c
    THEN UpperChars[CHOOSE i \in 1..Len(LowerChars) : LowerChars[i] = c]
    ELSE c

\* marker occurs in s with each letter in either case
OccursAnyCase(marker, s) ==
    \E i \in 0..(Len(s) - Len(marker)) :
        \A j \in 1..Len(marker) : s[i + j] \in {marker[j], UpperChar(marker[j])}

-----------------------------------------------------------------------------
(* C1: scenario A.  From the initial session state with the clock at 08:00, *)
(* one run_step on the CRITICAL blood-pressure entry, whose reply is the    *)
(* timeout sentinel, makes the escalation log gain exactly one record that  *)
(* mentions the task, invokes send_alert_to_caregiver exactly once and      *)
(* leaves the entry COMPLETED.                                              *)
C1_ScenarioA ==
    ( /\ last.op = "run_step"
      /\ last.time = [h |-> 8, m |-> 0]
      /\ last.before.sched = InitialSchedule
      /\ last.before.log = <<>> )
    => /\ Len(escalation_log) = 1
       /\ escalation_log[1].task = TaskBP
       /\ AlertCalls = 1
       /\ daily_schedule[Key_8_00].status = "COMPLETED"

(* C2: once run_step has run at the time of day of an entry that is PENDING, *)
(* the entry is not PENDING after that step, and an entry that has left      *)
(* PENDING never returns to it.                                              *)
C2_NeverPendingAgain ==
    [][\A k \in DOMAIN daily_schedule :
         /\ ( /\ last'.op = "run_step"
              /\ KeyTime(k) = last'.time
              /\ daily_schedule[k].status = "PENDING" )
            => daily_schedule'[k].status # "PENDING"
         /\ daily_schedule[k].status # "PENDING"
            => daily_schedule'[k].status # "PENDING"]_vars

(* C3: a run_step at the time of day of a PENDING entry makes exactly one    *)
(* handler invocation: the health handler for CRITICAL and HIGH, the general *)
(* handler for LOW.                                                          *)
C3_ExactlyOneHandler ==
    \A k \in DOMAIN daily_schedule :
        SteppedAt(k) =>
            IF last.before.sched[k].priority \in {"CRITICAL", "HIGH"}
            THEN HealthCalls = 1 /\ GeneralCalls = 0
            ELSE HealthCalls = 0 /\ GeneralCalls = 1

(* C4: process_a2a_artifact calls the notifier exactly when the artifact has *)
(* status missed and next_action alert_caregiver, and then once; for every   *)
(* other pair it makes no notifier call and hands over no message.           *)
C4_AlertIffMissedAndAlert ==
    last.op = "process_a2a_artifact" =>
        LET a == last.arg.a2a_artifact
            escalate == a.a2a_status = "missed" /\ a.next_action = "alert_caregiver"
        IN  /\ AlertCalls = (IF escalate THEN 1 ELSE 0)
            /\ Len(alerts) = Len(last.before.alerts) + AlertCalls
            /\ ~escalate => alerts = last.before.alerts

C4_Witness ==
    /\ last.op = "process_a2a_artifact"
    /\ last.arg.a2a_artifact.a2a_status = "missed"
    /\ last.arg.a2a_artifact.next_action = "alert_caregiver"
    /\ AlertCalls = 1
    /\ Len(last.before.alerts) = 1
    /\ alerts[2] = [who |-> UserName, task |-> last.arg.task]

(* C5: for every task, a reply that is the timeout sentinel is classified as *)
(* status missed with next_action alert_caregiver.                           *)
C5_TimeoutIsMissed ==
    ( /\ last.op = "health_manager_reasoning"
      /\ last.arg.user_response = <<"T","I","M","E","O","U","T">> )
    => /\ last.ret.a2a_status = "missed"
       /\ last.ret.next_action = "alert_caregiver"

C5_Witness ==
    /\ last.op = "health_manager_reasoning"
    /\ last.arg.user_response = <<"T","I","M","E","O","U","T">>
    /\ last.arg.task = TaskVitD
    /\ last.ret.a2a_status = "missed"

(* C6: for every task, a reply that is not the timeout sentinel and holds    *)
(* "confirm" or "took" with its letters in any case is classified as status  *)
(* confirmed with next_action none.                                          *)
C6_MarkerIsConfirmed ==
    ( /\ last.op = "health_manager_reasoning"
      /\ last.arg.user_response # <<"T","I","M","E","O","U","T">>
      /\ \/ OccursAnyCase(<<"c","o","n","f","i","r","m">>, last.arg.user_response)
         \/ OccursAnyCase(<<"t","o","o","k">>, last.arg.user_response) )
    => /\ last.ret.a2a_status = "confirmed"
       /\ last.ret.next_action = "none"

\* a marker in mixed case that spans the padding and the core of the reply
C6_Witness ==
    /\ last.op = "health_manager_reasoning"
    /\ last.arg.user_response = <<"t","o","o","K">>
    /\ last.ret.a2a_status = "confirmed"

(* C7: a run_step that directly follows a run_step at the same clock reading *)
(* invokes no handler and no notifier and leaves the schedule, the           *)
(* escalation log and the notifier's messages as the first call left them.   *)
C7_SecondStepIsNoop ==
    (last.op = "run_step" /\ last.repeat) =>
        /\ last.calls = <<>>
        /\ daily_schedule = last.before.sched
        /\ escalation_log = last.before.log
        /\ alerts = last.before.alerts

\* the second of two steps at 15:00, the first of which ran the health handler
C7_Witness ==
    /\ last.op = "run_step"
    /\ last.repeat
    /\ last.arg = Key_15_00
    /\ daily_schedule[Key_15_00].status = "COMPLETED"

(* C8: scenario B.  One run_step at 15:00 on the PENDING HIGH entry, whose   *)
(* reply contains "took it", leaves the escalation log unchanged, does not   *)
(* invoke the notifier and leaves the entry COMPLETED.                       *)
C8_ScenarioB ==
    ( /\ last.op = "run_step"
      /\ last.time = [h |-> 15, m |-> 0]
      /\ last.before.sched[Key_15_00].status = "PENDING" )
    => /\ escalation_log = last.before.log
       /\ AlertCalls = 0
       /\ alerts = last.before.alerts
       /\ daily_schedule[Key_15_00].status = "COMPLETED"

C8_Witness ==
    /\ last.op = "run_step"
    /\ last.time = [h |-> 15, m |-> 0]
    /\ last.before.sched[Key_15_00].status = "PENDING"
    /\ last.before.sched[Key_15_00].priority = "HIGH"
    /\ HealthCalls = 1
    /\ Contains(<<"t","o","o","k"," ","i","t">>, user_response_at(last.arg))
    /\ daily_schedule[Key_15_00].status = "COMPLETED"

(* C9: handle_user_query, in any state and for any query, changes no         *)
(* schedule entry and does not change the escalation log, also when it runs  *)
(* after an escalation and before a later step.                              *)
C9_QueryTouchesNothing ==
    last.op = "handle_user_query" =>
        /\ daily_schedule = last.before.sched
        /\ escalation_log = last.before.log

\* a query answered after the blood-pressure dose was escalated and before
\* the 15:00 entry is processed
C9_Witness ==
    /\ last.op = "handle_user_query"
    /\ GeneralCalls = 1
    /\ daily_schedule[Key_8_00].status = "MISSED - ESCALATED"
    /\ Len(escalation_log) = 1
    /\ current_time = [h |-> 15, m |-> 0]
    /\ daily_schedule[Key_15_00].status = "PENDING"

(* C10: no handler outcome stops the loop.  After an earlier step has        *)
(* handled its entry, a run_step at the time of day of another entry that is *)
(* still PENDING processes that entry and leaves it COMPLETED.               *)
C10_LoopContinues ==
    \A k \in DOMAIN daily_schedule :
        ( /\ SteppedAt(k)
          /\ \E j \in DOMAIN daily_schedule \ {k} :
                last.before.sched[j].status = "COMPLETED" )
        => daily_schedule[k].status = "COMPLETED"

C12_HandlerWritesOnlyOnMissed ==
    last.op = "issue_reminder_and_check_compliance" =>
        LET k == last.arg
            b == last.before
        IN  /\ alerts = b.alerts
            /\ \A j \in DOMAIN b.sched \ {k} : daily_schedule[j] = b.sched[j]
            /\ IF last.ret.a2a_artifact.a2a_status = "missed"
               THEN /\ daily_schedule[k] = [b.sched[k] EXCEPT !.status = "MISSED - ESCALATED"]
                    /\ Len(escalation_log) = Len(b.log) + 1
                    /\ SubSeq(escalation_log, 1, Len(b.log)) = b.log
                    /\ escalation_log[Len(escalation_log)] =
                          [time |-> strftime(current_time), task |-> b.sched[k].task]
               ELSE /\ daily_schedule = b.sched
                    /\ escalation_log = b.log

\* the second escalation of the blood-pressure dose: one more record after the first
C12_Witness ==
    /\ last.op = "issue_reminder_and_check_compliance"
    /\ last.arg = Key_8_00
    /\ last.ret.a2a_artifact.a2a_status = "missed"
    /\ Len(last.before.log) = 1
    /\ Len(escalation_log) = 2
    /\ daily_schedule[Key_8_00].status = "MISSED - ESCALATED"

\* the entries whose status the last operation changed
Changed == {k \in DOMAIN daily_schedule :
               daily_schedule[k].status # last.before.sched[k].status}

\* the places of name in the last operation's trace
Places(name) == {i \in 1..Len(last.calls) : last.calls[i] = name}

(* C13 as stated: an entry's status is changed only by run_step, after the   *)
(* handler invoked for the entry has returned; no task handler changes one.  *)
C13_OnlyOrchestratorWritesStatus ==
    /\ last.op # "run_step" => Changed = {}
    /\ Places("status := MISSED - ESCALATED") = {}
    /\ last.op = "run_step" =>
          \A i \in Places("status := COMPLETED") :
              \A j \in Places("issue_reminder_and_check_compliance")
                       \cup Places("health_manager_reasoning") : j < i

(* C13 as amended: an entry's status is changed only by run_step, which      *)
(* writes COMPLETED on the entry of its time key after the handler it        *)
(* invoked has returned and its artifact has been applied, and by the health *)
(* handler on its missed path, which writes MISSED - ESCALATED on the entry  *)
(* it handles; handle_user_query changes no status.                          *)
C13_StatusWriters ==
    /\ last.op = "run_step" =>
          /\ Changed \subseteq {last.arg}
          /\ \A k \in Changed : daily_schedule[k].status = "COMPLETED"
          /\ \A i \in Places("status := COMPLETED") :
                \A j \in Places("issue_reminder_and_check_compliance")
                         \cup Places("health_manager_reasoning")
                         \cup Places("process_a2a_artifact") : j < i
    /\ last.op = "issue_reminder_and_check_compliance" =>
          /\ Changed \subseteq {last.arg}
          /\ \A k \in Changed : /\ daily_schedule[k].status = "MISSED - ESCALATED"
                                /\ last.ret.a2a_artifact.a2a_status = "missed"
          /\ Places("status := COMPLETED") = {}
    /\ last.op \notin {"run_step", "issue_reminder_and_check_compliance"} =>
          /\ Changed = {}
          /\ Places("status := COMPLETED") \cup Places("status := MISSED - ESCALATED") = {}

\* the step at 15:00 closes its entry after the handler returned, while the
\* 8:00 entry carries the status the handler wrote
C13_Witness ==
    /\ last.op = "run_step"
    /\ Changed = {Key_15_00}
    /\ Places("issue_reminder_and_check_compliance") = {1}
    /\ Places("status := COMPLETED") = {Len(last.calls)}
    /\ daily_schedule[Key_8_00].status = "MISSED - ESCALATED"

(* C14: a step that processes the LOW entry marks it COMPLETED and nothing   *)
(* else: no handler runs, no artifact is produced or applied, the notifier   *)
(* is not invoked, the escalation log does not grow and no other entry       *)
(* changes.                                                                  *)
C14_LowStepOnlyCompletes ==
    ( /\ last.op = "run_step"
      /\ last.arg \in DOMAIN last.before.sched
      /\ last.before.sched[last.arg].status = "PENDING"
      /\ last.before.sched[last.arg].priority = "LOW" )
    => /\ daily_schedule = [last.before.sched EXCEPT ![last.arg].status = "COMPLETED"]
       /\ last.calls = <<"status := COMPLETED">>
       /\ escalation_log = last.before.log
       /\ alerts = last.before.alerts

\* the walk is closed at 10:30 after the 15:00 dose was handled
C14_Witness ==
    /\ last.op = "run_step"
    /\ last.arg = Key_10_30
    /\ last.before.sched[Key_10_30].status = "PENDING"
    /\ last.before.sched[Key_15_00].status = "COMPLETED"
    /\ daily_schedule[Key_10_30].status = "COMPLETED"

(* C15: run_step does nothing when no schedule key equals the current time   *)
(* key or when the entry of that key is not PENDING: the schedule, the       *)
(* escalation log, the notifier's messages and the clock are unchanged and   *)
(* no handler and no notifier is invoked.                                    *)
C15_StepIsNoopWithoutPendingMatch ==
    ( /\ last.op = "run_step"
      /\ \/ last.arg \notin DOMAIN last.before.sched
         \/ last.before.sched[last.arg].status # "PENDING" )
    => /\ daily_schedule = last.before.sched
       /\ escalation_log = last.before.log
       /\ alerts = last.before.alerts
       /\ current_time = last.time
       /\ last.calls = <<>>

\* a step at 08:01, whose key is no key of the schedule, after the 15:00
\* entry was processed
C15_Witness ==
    /\ last.op = "run_step"
    /\ last.time = [h |-> 8, m |-> 1]
    /\ last.arg \notin DOMAIN daily_schedule
    /\ daily_schedule[Key_15_00].status = "COMPLETED"
    /\ last.calls = <<>>

\* a step at 15:00 on the entry that is already COMPLETED
C15_WitnessProcessed ==
    /\ last.op = "run_step"
    /\ last.arg = Key_15_00
    /\ last.before.sched[Key_15_00].status = "COMPLETED"

(* C16: the classifier returns an artifact with its three fields for every   *)
(* (task, reply), and a reply that is not the timeout sentinel and holds no  *)
(* confirmation marker in any letter case is classified pending_follow_up    *)
(* with next_action none.                                                    *)
C16_OtherwisePendingFollowUp ==
    last.op = "health_manager_reasoning" =>
        /\ DOMAIN last.ret = {"a2a_status", "next_action", "response_text"}
        /\ last.ret.a2a_status \in {"confirmed", "missed", "pending_follow_up"}
        /\ last.ret.next_action \in {"none", "alert_caregiver"}
        /\ ( /\ last.arg.user_response # <<"T","I","M","E","O","U","T">>
             /\ ~OccursAnyCase(<<"c","o","n","f","i","r","m">>, last.arg.user_response)
             /\ ~OccursAnyCase(<<"t","o","o","k">>, last.arg.user_response) )
           => /\ last.ret.a2a_status = "pending_follow_up"
              /\ last.ret.next_action = "none"
              /\ last.ret.response_text.echo = last.arg.user_response

\* the sentinel in lower case is an unclassified reply
C16_Witness ==
    /\ last.op = "health_manager_reasoning"
    /\ last.arg.user_response = <<"t","i","m","e","o","u","t">>
    /\ last.ret.a2a_status = "pending_follow_up"

\* the health handler may be called for entry k and then classifies as status
HandlerCan(k, status) ==
    ENABLED ( /\ CallHandler
              /\ last'.arg = k
              /\ last'.ret.a2a_artifact.a2a_status = status )

HealthKeys == {k \in DOMAIN daily_schedule :
                  daily_schedule[k].priority \in {"CRITICAL", "HIGH"}}

(* C17 as stated: the reply handed to the classifier does not depend on the  *)
(* entry's time key: whenever the health handler can be called, for every    *)
(* health-routed key both a timeout outcome (missed) and a reply outcome     *)
(* (confirmed) can result.                                                   *)
C17_BothOutcomesForEveryKey ==
    Len(escalation_log) < MaxLog =>
        \A k \in HealthKeys : HandlerCan(k, "missed") /\ HandlerCan(k, "confirmed")

(* C17 as amended: the reply handed to the classifier is fixed by the time   *)
(* key: it is the timeout sentinel, classified missed, exactly when the      *)
(* handler is called for the key "8:00", and the fixed confirmation          *)
(* "I confirm I took it. Thanks.", classified confirmed, for every other     *)
(* key.                                                                      *)
C17_ReplyFixedByKey ==
    last.op = "issue_reminder_and_check_compliance" =>
        /\ last.ret.a2a_artifact =
              health_manager_reasoning(last.ret.task,
                  IF last.arg = <<"8", ":", "0", "0">>
                  THEN <<"T","I","M","E","O","U","T">> ELSE ConfirmReply)
        /\ last.ret.a2a_artifact.a2a_status =
              (IF last.arg = <<"8", ":", "0", "0">> THEN "missed" ELSE "confirmed")

\* the handler called for the 15:00 entry after it was called for the 8:00
\* entry: the first timed out, the second is confirmed
C17_Witness ==
    /\ last.op = "issue_reminder_and_check_compliance"
    /\ last.arg = Key_15_00
    /\ last.ret.a2a_artifact.a2a_status = "confirmed"
    /\ daily_schedule[Key_8_00].status = "MISSED - ESCALATED"
    /\ Len(escalation_log) = 1

(* C18: every entry of the initial schedule is processed at its time of day: *)
(* when run_step is called with the clock at the time of day of an entry     *)
(* that is PENDING, the time key run_step computes is that entry's key and   *)
(* the entry leaves PENDING; for each of the three entries.                  *)
C18_EveryEntryProcessedAtItsTime ==
    \A k \in DOMAIN InitialSchedule :
        SteppedAt(k) => /\ last.arg = k
                        /\ daily_schedule[k].status # "PENDING"

IsPrefix(s, t) == Len(s) <= Len(t) /\ SubSeq(t, 1, Len(s)) = s

(* C20: across every operation (run_step, the health handler,                *)
(* handle_user_query) the escalation log before is a prefix of the log       *)
(* after, and no schedule entry is added or deleted: the keys, and each      *)
(* entry's task and priority, stay those of the initial schedule.            *)
C20_AppendOnlyLogFixedKeys ==
    /\ IsPrefix(last.before.log, escalation_log)
    /\ DOMAIN daily_schedule = DOMAIN InitialSchedule
    /\ DOMAIN last.before.sched = DOMAIN InitialSchedule
    /\ \A k \in DOMAIN InitialSchedule :
          /\ daily_schedule[k].task = InitialSchedule[k].task
          /\ daily_schedule[k].priority = InitialSchedule[k].priority

\* the handler has appended a second record behind the first
C20_Witness ==
    /\ last.op = "issue_reminder_and_check_compliance"
    /\ Len(last.before.log) = 1
    /\ Len(escalation_log) = 2
    /\ escalation_log[1] = last.before.log[1]
    /\ DOMAIN daily_schedule = {Key_8_00, Key_10_30, Key_15_00}

====
